---- MODULE Spec2Model ----
(***************************************************************************)
(* Model of logseq-journal-prepare: the page document (src/page.rs), its   *)
(* parse / serialize / merge operations, and the page generation steps of  *)
(* the preparer (src/main.rs).                                             *)
(*                                                                         *)
(* A text is a sequence of characters (one-character strings); "\n" is the *)
(* line terminator.  An outline entry is the text of one bullet, with its  *)
(* continuation lines joined by "\n", as page.rs keeps it in a String.     *)
(***************************************************************************)
EXTENDS Integers, Naturals, Sequences, FiniteSets, TLC

VARIABLES page, rhs, string, hist, fs, out

vars == <<page, rhs, string, hist, fs, out>>

(***************************************************************************)
(* Bounds of the model.                                                    *)
(***************************************************************************)
MaxMeta == 2
MaxContent == 2
MaxLines == 4
MaxRounds == 2
MaxRuns == 2
FirstYear == 2020
MaxYears == 5
MaxNav == 2
MaxSpan == 3

(***************************************************************************)
(* Generic helpers.                                                        *)
(***************************************************************************)
BSeq(S, n) == UNION {[1..k -> S] : k \in 0..n}

Range(s) == {s[i] : i \in 1..Len(s)}

IsPrefix(s, t) == Len(s) <= Len(t) /\ SubSeq(t, 1, Len(s)) = s

RECURSIVE Concat(_)
Concat(ss) == IF ss = <<>> THEN <<>> ELSE Head(ss) \o Concat(Tail(ss))

NL == "\n"

\* str::starts_with
starts_with(line, prefix) == IsPrefix(prefix, line)

\* Index of the first "\n" of s, 0 when there is none.
FirstNL(s) ==
  IF \E i \in 1..Len(s) : s[i] = NL
  THEN CHOOSE i \in 1..Len(s) : s[i] = NL /\ \A j \in 1..(i - 1) : s[j] # NL
  ELSE 0

\* A line that ended "\r\n" loses the "\r" too.
StripCR(l) == IF l # <<>> /\ l[Len(l)] = "\r" THEN SubSeq(l, 1, Len(l) - 1) ELSE l

\* str::lines: the lines of a text without their terminators; the final
\* terminator is optional.
RECURSIVE lines(_)
lines(s) ==
  IF s = <<>> THEN <<>>
  ELSE LET nl == FirstNL(s)
       IN IF nl = 0 THEN <<s>>
          ELSE <<StripCR(SubSeq(s, 1, nl - 1))>> \o lines(SubSeq(s, nl + 1, Len(s)))

(***************************************************************************)
(* Metadata (crate::metadata, not part of the sources at hand): a key and  *)
(* a value; a line is key, separator, value.                               *)
(***************************************************************************)
SEP == <<":", ":", " ">>

\* Index of the first occurrence of the separator in line, 0 when absent.
SepIndex(line) ==
  LET hits == {i \in 1..Len(line) :
                 /\ i + Len(SEP) - 1 <= Len(line)
                 /\ SubSeq(line, i, i + Len(SEP) - 1) = SEP}
  IN IF hits = {} THEN 0 ELSE CHOOSE i \in hits : \A j \in hits : i <= j

\* Metadata::from_str: Ok exactly when the line holds the separator.
Metadata_parses(line) == SepIndex(line) # 0

Metadata_from_str(line) ==
  LET i == SepIndex(line)
  IN [key |-> SubSeq(line, 1, i - 1), value |-> SubSeq(line, i + Len(SEP), Len(line))]

\* Display for Metadata
Metadata_fmt(m) == m.key \o SEP \o m.value

\* Metadata::update: the value of the other entry replaces this one's.
Metadata_update(m, line) == [m EXCEPT !.value = line.value]

(***************************************************************************)
(* Content: the document of a page.                                        *)
(***************************************************************************)
Content_default == [metadata |-> <<>>, content |-> <<>>]

Placeholder == <<"-">>

\* Page::push_content
push_content(c, text) == [c EXCEPT !.content = Append(@, <<"-", " ">> \o text)]

\* Page::push_metadata
push_metadata(c, m) == [c EXCEPT !.metadata = Append(@, m)]

\* writeln!(f, "{}", x)
writeln(x) == x \o <<NL>>

RECURSIVE fmt_metadata(_)
fmt_metadata(ms) ==
  IF ms = <<>> THEN <<>>
  ELSE writeln(Metadata_fmt(Head(ms))) \o fmt_metadata(Tail(ms))

\* Mutation of fmt_content: the test on the index is dropped, the placeholder
\* goes before every entry that is not the placeholder.
RECURSIVE fmt_content_every(_, _)
fmt_content_every(cs, index) ==
  IF index > Len(cs) THEN <<>>
  ELSE (IF cs[index] # Placeholder THEN writeln(Placeholder) ELSE <<>>)
       \o writeln(cs[index]) \o fmt_content_every(cs, index + 1)

RECURSIVE fmt_content(_, _)
fmt_content(cs, index) ==
  IF index > Len(cs) THEN <<>>
  ELSE (IF index = 1 /\ cs[index] # Placeholder THEN writeln(Placeholder) ELSE <<>>)
       \o writeln(cs[index]) \o fmt_content(cs, index + 1)

\* Mutation of fmt: an empty outline is written as the bare placeholder line.
fmt_placeholder_root(c) ==
  fmt_metadata(c.metadata) \o writeln(<<>>)
  \o (IF c.content = <<>> THEN writeln(Placeholder) ELSE fmt_content(c.content, 1))

\* impl Display for Content
fmt(c) == fmt_metadata(c.metadata) \o writeln(<<>>) \o fmt_content(c.content, 1)

\* Mutation of from_str_loop: inside the outline every line that begins with
\* the bullet marker starts an entry.
RECURSIVE from_str_loop_every_bullet(_, _, _, _, _)
from_str_loop_every_bullet(ls, i, pg, read_content, content) ==
  IF i > Len(ls)
  THEN [ok |-> TRUE,
        page |-> IF read_content
                 THEN [pg EXCEPT !.content = Append(@, content)]
                 ELSE pg]
  ELSE LET line == ls[i]
       IN IF ~read_content
          THEN IF starts_with(line, <<"-">>)
               THEN from_str_loop_every_bullet(ls, i + 1, pg, TRUE, line)
               ELSE IF line # <<>>
                    THEN IF Metadata_parses(line)
                         THEN from_str_loop_every_bullet(ls, i + 1,
                                [pg EXCEPT !.metadata = Append(@, Metadata_from_str(line))],
                                FALSE, content)
                         ELSE [ok |-> FALSE, page |-> Content_default]
                    ELSE from_str_loop_every_bullet(ls, i + 1, pg, FALSE, content)
          ELSE IF starts_with(line, <<"-">>)
               THEN from_str_loop_every_bullet(ls, i + 1,
                      [pg EXCEPT !.content = Append(@, content)], TRUE, line)
               ELSE from_str_loop_every_bullet(ls, i + 1, pg, TRUE, content \o <<NL>> \o line)

\* impl FromStr for Content: the loop over the lines, from line i on.
RECURSIVE from_str_loop(_, _, _, _, _)
from_str_loop(ls, i, pg, read_content, content) ==
  IF i > Len(ls)
  THEN [ok |-> TRUE,
        page |-> IF read_content
                 THEN [pg EXCEPT !.content = Append(@, content)]
                 ELSE pg]
  ELSE LET line == ls[i]
       IN IF ~read_content
          THEN IF starts_with(line, <<"-">>)
               THEN from_str_loop(ls, i + 1, pg, TRUE, line)
               ELSE IF line # <<>>
                    THEN IF Metadata_parses(line)
                         THEN from_str_loop(ls, i + 1,
                                [pg EXCEPT !.metadata = Append(@, Metadata_from_str(line))],
                                FALSE, content)
                         ELSE [ok |-> FALSE, page |-> Content_default]
                    ELSE from_str_loop(ls, i + 1, pg, FALSE, content)
          ELSE IF starts_with(line, <<"-", " ">>)
               THEN from_str_loop(ls, i + 1,
                      [pg EXCEPT !.content = Append(@, content)], TRUE, line)
               ELSE from_str_loop(ls, i + 1, pg, TRUE, content \o <<NL>> \o line)

from_str(s) == from_str_loop(lines(s), 1, Content_default, FALSE, <<>>)

\* impl Add for Content, the metadata loop: the first entry of self with the
\* key is updated, a key self lacks is pushed.
RECURSIVE add_metadata(_, _)
add_metadata(self, rmeta) ==
  IF rmeta = <<>> THEN self
  ELSE LET line == Head(rmeta)
           found == {i \in 1..Len(self) : self[i].key = line.key}
       IN IF found # {}
          THEN LET i == CHOOSE i \in found : \A j \in found : i <= j
               IN add_metadata([self EXCEPT ![i] = Metadata_update(@, line)], Tail(rmeta))
          ELSE add_metadata(Append(self, line), Tail(rmeta))

\* Mutation of add_content: a new entry is inserted in front.
RECURSIVE add_content_front(_, _)
add_content_front(self, rcontent) ==
  IF rcontent = <<>> THEN self
  ELSE LET line == Head(rcontent)
       IN IF \A i \in 1..Len(self) : self[i] # line
          THEN add_content_front(<<line>> \o self, Tail(rcontent))
          ELSE add_content_front(self, Tail(rcontent))

\* Mutation of add_content: entries are compared by their first line only.
RECURSIVE add_content_first_line(_, _)
add_content_first_line(self, rcontent) ==
  IF rcontent = <<>> THEN self
  ELSE LET line == Head(rcontent)
       IN IF \A i \in 1..Len(self) : lines(self[i])[1] # lines(line)[1]
          THEN add_content_first_line(Append(self, line), Tail(rcontent))
          ELSE add_content_first_line(self, Tail(rcontent))

\* impl Add for Content, the content loop.
RECURSIVE add_content(_, _)
add_content(self, rcontent) ==
  IF rcontent = <<>> THEN self
  ELSE LET line == Head(rcontent)
       IN IF \A i \in 1..Len(self) : self[i] # line
          THEN add_content(Append(self, line), Tail(rcontent))
          ELSE add_content(self, Tail(rcontent))

\* impl Add for Content
add(self, other) ==
  [metadata |-> add_metadata(self.metadata, other.metadata),
   content |-> add_content(self.content, other.content)]

(***************************************************************************)
(* Inputs of the bounded checks.                                           *)
(***************************************************************************)
\* Two keys; the first one with two values, so that an override changes a value.
MetaSet == {[key |-> <<"k">>, value |-> <<"a">>],
            [key |-> <<"k">>, value |-> <<"b">>],
            [key |-> <<"j">>, value |-> <<"a">>]}

\* Entries as from_str and push_content produce them: a bare placeholder, a
\* one-line bullet, and the same bullet with a continuation line.
EntrySet == {<<"-">>, <<"-", " ", "a">>, <<"-", " ", "a", "\n", " ", "c">>}

DocSet == [metadata : BSeq(MetaSet, MaxMeta), content : BSeq(EntrySet, MaxContent)]

NoFs == <<>>

(***************************************************************************)
(* SpecMerge: one merge of two documents drawn from DocSet.                *)
(***************************************************************************)
InitMerge ==
  /\ page \in DocSet
  /\ rhs \in DocSet
  /\ string = <<>>
  /\ hist = [op |-> "init"]
  /\ fs = NoFs
  /\ out = <<>>

\* impl Add for Page: self.content = self.content + rhs.content
AddStep ==
  /\ hist.op = "init"
  /\ page' = add(page, rhs)
  /\ hist' = [op |-> "add", lhs |-> page]
  /\ UNCHANGED <<rhs, string, fs, out>>

NextMerge == AddStep

SpecMerge == InitMerge /\ [][NextMerge]_vars

Merged == hist.op = "add"

\* C2: the outline of combine(base, incoming) has base's outline as an exact
\* prefix: nothing of base is removed, changed or reordered, and what the merge
\* adds comes after all of base's entries.
C2_BasePrefix ==
  Merged =>
    /\ Len(hist.lhs.content) <= Len(page.content)
    /\ \A i \in 1..Len(hist.lhs.content) : page.content[i] = hist.lhs.content[i]

C2_Witness ==
  /\ Merged
  /\ Len(hist.lhs.content) = MaxContent
  /\ Len(page.content) > Len(hist.lhs.content)
  /\ \E i \in 1..Len(rhs.content) : rhs.content[i] \in Range(hist.lhs.content)

\* The incoming entries that get appended: those no entry of base equals and
\* no earlier incoming entry equals.
Fresh(base, incoming) ==
  {i \in 1..Len(incoming) :
     /\ incoming[i] \notin Range(base)
     /\ \A j \in 1..(i - 1) : incoming[j] # incoming[i]}

\* C3: an incoming entry is appended iff no entry of the combined sequence so
\* far is textually identical (full multi-line text); the appended entries keep
\* incoming's order; an entry differing only in its continuation lines is
\* different, hence appended.
C3_AppendIffNew ==
  Merged =>
    LET base == hist.lhs.content
        incoming == rhs.content
        added == SubSeq(page.content, Len(base) + 1, Len(page.content))
        fresh == Fresh(base, incoming)
    IN /\ Len(added) = Cardinality(fresh)
       /\ \A n \in 1..Len(added) :
            \E i \in fresh :
              /\ added[n] = incoming[i]
              /\ Cardinality({j \in fresh : j < i}) = n - 1

C3_Witness ==
  /\ Merged
  /\ <<"-", " ", "a">> \in Range(hist.lhs.content)
  /\ rhs.content = << <<"-", " ", "a">>, <<"-", " ", "a", "\n", " ", "c">> >>
  /\ page.content = Append(hist.lhs.content, <<"-", " ", "a", "\n", " ", "c">>)

KeysOf(ms) == {ms[i].key : i \in 1..Len(ms)}

\* C4 as claimed: every entry of base keeps its position, takes incoming's
\* value when incoming has its key and keeps its own otherwise; then come the
\* entries of incoming whose key base lacks, in incoming's order.
C4_MetadataMerge ==
  Merged =>
    LET base == hist.lhs.metadata
        incoming == rhs.metadata
        IsNew(m) == m.key \notin KeysOf(base)
    IN /\ Len(page.metadata) >= Len(base)
       /\ \A i \in 1..Len(base) :
            /\ page.metadata[i].key = base[i].key
            /\ IF base[i].key \in KeysOf(incoming)
               THEN \E j \in 1..Len(incoming) :
                      /\ incoming[j].key = base[i].key
                      /\ page.metadata[i].value = incoming[j].value
               ELSE page.metadata[i].value = base[i].value
       /\ SubSeq(page.metadata, Len(base) + 1, Len(page.metadata))
            = SelectSeq(incoming, IsNew)

\* C5 as claimed: combine(d, d) has the metadata and the outline of d.
C5_SelfMerge ==
  (Merged /\ hist.lhs = rhs) => page = hist.lhs

(***************************************************************************)
(* Texts: files of at most MaxLines lines, with or without the final line  *)
(* terminator.  The lines: blank, the bare placeholder, a bullet, a        *)
(* continuation line (no separator in it), a line that starts with the     *)
(* bullet character but not with bullet + space, and two metadata lines of *)
(* one key.                                                                *)
(***************************************************************************)
LineSet == {<<>>, <<"-">>, <<"-", " ", "a">>, <<" ", "c">>, <<"-", "x">>,
            <<"k", ":", ":", " ", "a">>, <<"k", ":", ":", " ", "b">>}

RECURSIVE Unlines(_, _)
Unlines(ls, final) ==
  IF ls = <<>> THEN <<>>
  ELSE IF Len(ls) = 1 THEN (IF final THEN writeln(ls[1]) ELSE ls[1])
  ELSE writeln(Head(ls)) \o Unlines(Tail(ls), final)

Texts == {Unlines(ls, final) : ls \in BSeq(LineSet, MaxLines), final \in BOOLEAN}

(***************************************************************************)
(* SpecDoc: the documents a program can build: Page::new, push_metadata,   *)
(* push_content, parse, and the merge with another document.               *)
(***************************************************************************)
InitDoc ==
  /\ page = Content_default
  /\ rhs = Content_default
  /\ string = <<>>
  /\ hist = [op |-> "new"]
  /\ fs = NoFs
  /\ out = <<>>

\* Page::new
PageNew ==
  /\ page' = Content_default
  /\ hist' = [op |-> "new"]
  /\ UNCHANGED <<rhs, string, fs, out>>

PushMetadata ==
  /\ Len(page.metadata) < MaxMeta
  /\ \E m \in MetaSet : page' = push_metadata(page, m)
  /\ hist' = [op |-> "push_metadata"]
  /\ UNCHANGED <<rhs, string, fs, out>>

PushContent ==
  /\ Len(page.content) < MaxContent
  /\ \E t \in {<<"a">>, <<"a", "\n", " ", "c">>} : page' = push_content(page, t)
  /\ hist' = [op |-> "push_content"]
  /\ UNCHANGED <<rhs, string, fs, out>>

\* The texts parsed in SpecDoc: metadata lines and bullets, MaxMeta lines at most.
DocTexts ==
  {Unlines(ls, TRUE) :
     ls \in BSeq({<<"k", ":", ":", " ", "a">>, <<"k", ":", ":", " ", "b">>, <<"-", " ", "a">>}, MaxMeta)}

\* page.content = text.parse()?
ParseDoc ==
  /\ \E t \in DocTexts :
       LET r == from_str(t)
       IN r.ok /\ page' = r.page
  /\ hist' = [op |-> "from_str"]
  /\ UNCHANGED <<rhs, string, fs, out>>

\* page = page + other
AddDoc ==
  /\ \E other \in DocSet : page' = add(page, other)
  /\ hist' = [op |-> "add"]
  /\ UNCHANGED <<rhs, string, fs, out>>

NextDoc == PageNew \/ PushMetadata \/ PushContent \/ ParseDoc \/ AddDoc

SpecDoc == InitDoc /\ [][NextDoc]_vars

\* C10 as claimed: in every document the program can build, no two metadata
\* entries have the same key.
C10_KeysUnique ==
  \A i, j \in 1..Len(page.metadata) :
    page.metadata[i].key = page.metadata[j].key => i = j

(***************************************************************************)
(* SpecText: a text is parsed and the document written back, repeatedly    *)
(* (Page::try_from, then Page::write, as the test of page.rs does); the    *)
(* first document is parsed from a text or built by push_metadata and      *)
(* push_content.                                                           *)
(***************************************************************************)
InitText ==
  /\ \/ /\ string \in Texts
        /\ page = Content_default
        /\ hist = [op |-> "init", from |-> "text", t |-> string, round |-> 0,
                   d |-> Content_default, s |-> <<>>]
     \/ /\ string = <<>>
        /\ page \in DocSet
        /\ hist = [op |-> "built", from |-> "built", t |-> <<>>, round |-> 0,
                   d |-> Content_default, s |-> <<>>]
  /\ rhs = Content_default
  /\ fs = NoFs
  /\ out = <<>>

\* Page::try_from, the text parses: hist.d keeps the document before it.
TryFromOk ==
  /\ hist.op \in {"init", "fmt"}
  /\ from_str(string).ok
  /\ page' = from_str(string).page
  /\ hist' = [hist EXCEPT !.op = "from_str", !.d = page]
  /\ UNCHANGED <<rhs, string, fs, out>>

\* Page::try_from, a metadata line does not parse.
TryFromErr ==
  /\ hist.op \in {"init", "fmt"}
  /\ ~from_str(string).ok
  /\ hist' = [hist EXCEPT !.op = "err"]
  /\ UNCHANGED <<page, rhs, string, fs, out>>

\* write!(file, "{}", self.content): hist.s keeps the text before it.
WriteText ==
  /\ hist.op \in {"from_str", "built"}
  /\ hist.round < MaxRounds
  /\ string' = fmt(page)
  /\ hist' = [hist EXCEPT !.op = "fmt", !.round = @ + 1, !.s = string]
  /\ UNCHANGED <<page, rhs, fs, out>>

NextText == TryFromOk \/ TryFromErr \/ WriteText

SpecText == InitText /\ [][NextText]_vars

\* A well-formed text: every line that begins with the bullet character is
\* the bare bullet or begins with bullet + space (and the text parses).
WellFormed(t) ==
  \A i \in 1..Len(lines(t)) :
    LET l == lines(t)[i]
    IN starts_with(l, <<"-">>) => (l = <<"-">> \/ starts_with(l, <<"-", " ">>))

\* C7 as claimed: for a well-formed text t, parse(serialize(parse(t))) has the
\* metadata of parse(t) and its outline, but for one placeholder added in front
\* when the first entry of parse(t) is not the placeholder; and serializing
\* again changes nothing.
C7_RoundTrip ==
  (hist.from = "text" /\ WellFormed(hist.t)) =>
    /\ (hist.op = "from_str" /\ hist.round >= 1) =>
         /\ page.metadata = hist.d.metadata
         /\ \/ page.content = hist.d.content
            \/ /\ hist.d.content # <<>>
               /\ hist.d.content[1] # Placeholder
               /\ page.content = <<Placeholder>> \o hist.d.content
    /\ (hist.op = "fmt" /\ hist.round >= 2) => string = hist.s

Written == hist.op = "fmt"

\* The lines of one outline entry.
EntryLines(e) == lines(writeln(e))

RECURSIVE OutlineLines(_)
OutlineLines(cs) ==
  IF cs = <<>> THEN <<>> ELSE EntryLines(Head(cs)) \o OutlineLines(Tail(cs))

\* C8: serialize emits the metadata lines, one blank line, then the outline;
\* the bare placeholder line comes only right before the first entry and only
\* when that entry is not the placeholder itself: not before a later entry,
\* not when the outline is empty.
C8_SerializeLayout ==
  Written =>
    LET ls == lines(string)
        nm == Len(page.metadata)
        cs == page.content
        lead == IF cs # <<>> /\ cs[1] # Placeholder THEN <<Placeholder>> ELSE <<>>
    IN /\ string[Len(string)] = NL
       /\ Len(ls) >= nm + 1
       /\ \A i \in 1..nm : ls[i] = Metadata_fmt(page.metadata[i])
       /\ ls[nm + 1] = <<>>
       /\ SubSeq(ls, nm + 2, Len(ls)) = lead \o OutlineLines(cs)

C8_Witness ==
  /\ Written
  /\ page.metadata # <<>>
  /\ Len(page.content) >= 2
  /\ page.content[1] # Placeholder
  /\ page.content[2] # Placeholder

\* C9 as claimed: a document with an empty outline renders its outline region
\* as one bare placeholder line.
C9_EmptyOutlinePlaceholder ==
  (Written /\ page.content = <<>>) =>
    LET ls == lines(string)
        nm == Len(page.metadata)
    IN SubSeq(ls, nm + 2, Len(ls)) = <<Placeholder>>

\* C9 amended: the metadata lines come before one blank separator line; an
\* empty outline renders as nothing after the separator, and a non-empty one
\* opens with the bare placeholder line.
C9_SeparatorThenOutline ==
  Written =>
    LET ls == lines(string)
        nm == Len(page.metadata)
    IN /\ \A i \in 1..nm : ls[i] # <<>> /\ Metadata_from_str(ls[i]) = page.metadata[i]
       /\ Len(ls) > nm /\ ls[nm + 1] = <<>>
       /\ page.content = <<>> => Len(ls) = nm + 1
       /\ page.content # <<>> => (Len(ls) > nm + 1 /\ ls[nm + 2] = Placeholder)

C9_Witness ==
  /\ Written
  /\ page.content = <<>>
  /\ page.metadata # <<>>
  /\ string = writeln(Metadata_fmt(page.metadata[1])) \o <<NL>>

(***************************************************************************)
(* Calendar (chrono): a NaiveDate is its number of days since 1970-01-01.  *)
(***************************************************************************)
\* NaiveDate::from_ymd_opt(y, m, d).unwrap()
from_ymd(y, m, d) ==
  LET yy == IF m <= 2 THEN y - 1 ELSE y
      era == yy \div 400
      yoe == yy - era * 400
      mp == IF m > 2 THEN m - 3 ELSE m + 9
      doy == (153 * mp + 2) \div 5 + d - 1
      doe == yoe * 365 + yoe \div 4 - yoe \div 100 + doy
  IN era * 146097 + doe - 719468

\* Datelike: year(), month(), day() of a date
civil_of[date \in Int] ==
  LET z == date + 719468
      era == z \div 146097
      doe == z - era * 146097
      yoe == (doe - doe \div 1460 + doe \div 36524 - doe \div 146096) \div 365
      doy == doe - (365 * yoe + yoe \div 4 - yoe \div 100)
      mp == (5 * doy + 2) \div 153
      d == doy - (153 * mp + 2) \div 5 + 1
      m == IF mp < 10 THEN mp + 3 ELSE mp - 9
  IN [year |-> yoe + era * 400 + (IF m <= 2 THEN 1 ELSE 0), month |-> m, day |-> d]

\* The date is worked out once, then its year, month and day.
civil(date) == civil_of[date]

\* Datelike::weekday: 0 is Monday, 6 is Sunday (1970-01-01 was a Thursday).
weekday(date) == (date + 3) % 7

\* The ISO weeks of year y: 53 when its 1 January or its 31 December is a Thursday.
weeks_in_year(y) ==
  IF weekday(from_ymd(y, 1, 1)) = 3 \/ weekday(from_ymd(y, 12, 31)) = 3 THEN 53 ELSE 52

\* Datelike::iso_week
iso_week_of[date \in Int] ==
  LET y == civil(date).year
      ordinal == date - from_ymd(y, 1, 1) + 1
      w == (ordinal + 9 - weekday(date)) \div 7
  IN IF w < 1 THEN [year |-> y - 1, week |-> weeks_in_year(y - 1)]
     ELSE IF w > weeks_in_year(y) THEN [year |-> y + 1, week |-> 1]
     ELSE [year |-> y, week |-> w]

\* The date is worked out once, then its ISO week.
iso_week(date) == iso_week_of[date]

\* NaiveDate::from_isoywd_opt(year, week, weekday).unwrap(): week 1 is the
\* week of 4 January.
from_isoywd(y, w, wd) ==
  LET jan4 == from_ymd(y, 1, 4)
  IN jan4 - weekday(jan4) + 7 * (w - 1) + wd

\* impl DateRange for IsoWeek
IsoWeek_first(week) == from_isoywd(week.year, week.week, 0)

IsoWeek_last(week) == from_isoywd(week.year, week.week, 6)

\* impl From<NaiveDate> for Month
Month_from(date) == [year |-> civil(date).year, month |-> civil(date).month]

days_in_month(y, m) ==
  IF m = 12 THEN 31 ELSE from_ymd(y, m + 1, 1) - from_ymd(y, m, 1)

\* Mutation of add_month: a month is taken to be thirty days.
add_thirty_days(date) == date + 30

\* date + Months::new(1): the day is clamped to the length of the month.
add_month(date) ==
  LET c == civil(date)
      y == IF c.month = 12 THEN c.year + 1 ELSE c.year
      m == IF c.month = 12 THEN 1 ELSE c.month + 1
      d == IF c.day > days_in_month(y, m) THEN days_in_month(y, m) ELSE c.day
  IN from_ymd(y, m, d)

\* date - Months::new(1)
sub_month(date) ==
  LET c == civil(date)
      y == IF c.month = 1 THEN c.year - 1 ELSE c.year
      m == IF c.month = 1 THEN 12 ELSE c.month - 1
      d == IF c.day > days_in_month(y, m) THEN days_in_month(y, m) ELSE c.day
  IN from_ymd(y, m, d)

\* impl DateRange for Month
Month_first(month) == from_ymd(month.year, month.month, 1)

Month_last(month) == add_month(Month_first(month)) - 1

\* impl Navigation for Month
Month_next(month) == Month_from(add_month(Month_first(month)))

Month_prev(month) == Month_from(sub_month(Month_first(month)))

\* Mutation of IsoWeek_next: the day added to the Sunday is forgotten.
IsoWeek_next_of_last(week) == iso_week(IsoWeek_last(week))

\* impl Navigation for IsoWeek
IsoWeek_next(week) == iso_week(IsoWeek_last(week) + 1)

IsoWeek_prev(week) == iso_week(IsoWeek_first(week) - 1)

(***************************************************************************)
(* Names, links and metadata of the calendar units (crate::journal_name    *)
(* and crate::metadata, not part of the sources at hand): a name is a      *)
(* short text that tells the units apart.                                  *)
(***************************************************************************)
Date_name(date) ==
  LET c == civil(date)
  IN <<ToString(c.year), "_", ToString(c.month), "_", ToString(c.day)>>

IsoWeek_name(week) == <<ToString(week.year), "/", "W", ToString(week.week)>>

Month_name(month) == <<ToString(month.year), "/", "M", ToString(month.month)>>

\* to_journal_path_name: the file name of a unit
path_name(name) == name \o <<".md">>

\* ToLink::to_link, Display for Link: [[name]]
to_link(name) == <<"[", "[">> \o name \o <<"]", "]">>

\* ToEmbedded::into_embedded, Display for Embedded: {{embed [[name]]}}
into_embedded(link) == <<"{", "{", "embed", " ">> \o link \o <<"}", "}">>

\* ToMetadata::to_metadata
to_metadata(value, key) == [key |-> key, value |-> value]

\* Filters::default().push(name, false)...: one metadata entry, key filters
RECURSIVE Filters_value(_)
Filters_value(names) ==
  IF names = <<>> THEN <<>>
  ELSE <<"\"">> \o Head(names) \o <<"\"", " ", "false">>
       \o (IF Len(names) > 1 THEN <<",", " ">> ELSE <<>>) \o Filters_value(Tail(names))

Filters(names) ==
  [key |-> <<"filters">>, value |-> <<"{">> \o Filters_value(names) \o <<"}">>]

\* Preparer::page_path, Preparer::journal_path
page_path(name) == <<"pages", "/">> \o name

journal_path(name) == <<"journals", "/">> \o name

Weekday_name(wd) ==
  <<"Monday", "Tuesday", "Wednesday", "Thursday", "Friday", "Saturday", "Sunday">>[wd + 1]

(***************************************************************************)
(* The file system: a function from the paths of the existing files to     *)
(* their texts.                                                            *)
(***************************************************************************)
exists(fsys, path) == path \in DOMAIN fsys

Put(fsys, path, text) ==
  [q \in DOMAIN fsys \cup {path} |-> IF q = path THEN text ELSE fsys[q]]

\* Where a failing write may stop: the file is created empty, then written
\* line by line.
Cuts(text) == {k \in 0..(Len(text) - 1) : k = 0 \/ text[k] = NL}

\* Page::write: File::create fails (nothing changes), or it truncates the file
\* and the write fails part-way, or the whole text is written.
write(fsys, path, content) ==
  LET text == fmt(content)
  IN {[fs |-> fsys, res |-> "create_err"]}
     \cup {[fs |-> Put(fsys, path, SubSeq(text, 1, k)), res |-> "write_err"] : k \in Cuts(text)}
     \cup {[fs |-> Put(fsys, path, text), res |-> "ok"]}

\* Page::try_from: read_to_string fails, or the text is parsed.
try_from(fsys, path) ==
  LET r == from_str(fsys[path])
  IN {[res |-> "read_err", page |-> Content_default],
      IF r.ok THEN [res |-> "ok", page |-> r.page]
      ELSE [res |-> "parse_err", page |-> Content_default]}

\* Mutation of save: the file is opened for writing before it is parsed.
save_create_first(fsys, path, built) ==
  IF exists(fsys, path)
  THEN UNION {IF l.res = "ok" THEN write(fsys, path, add(l.page, built))
              ELSE {[fs |-> Put(fsys, path, <<>>), res |-> l.res]} :
              l \in try_from(fsys, path)}
  ELSE write(fsys, path, built)

\* Mutation of save: the built page is the left operand of the merge.
save_built_first(fsys, path, built) ==
  IF exists(fsys, path)
  THEN UNION {IF l.res = "ok" THEN write(fsys, path, add(built, l.page))
              ELSE {[fs |-> fsys, res |-> l.res]} :
              l \in try_from(fsys, path)}
  ELSE write(fsys, path, built)

\* The end of print_date, print_week and print_month:
\* if path.exists() { page = Page::try_from(path)? + page; }  page.write()?;
save(fsys, path, built) ==
  IF exists(fsys, path)
  THEN UNION {IF l.res = "ok" THEN write(fsys, path, add(l.page, built))
              ELSE {[fs |-> fsys, res |-> l.res]} :
              l \in try_from(fsys, path)}
  ELSE write(fsys, path, built)

\* Mutation of push_days: the loop stops before the last day.
RECURSIVE push_days_before_last(_, _, _)
push_days_before_last(pg, date, last) ==
  LET next == push_content(pg, into_embedded(to_link(Date_name(date))))
  IN IF date + 1 >= last THEN next ELSE push_days_before_last(next, date + 1, last)

\* push_content of the embedded link of every day from first to last
RECURSIVE push_days(_, _, _)
push_days(pg, date, last) ==
  LET next == push_content(pg, into_embedded(to_link(Date_name(date))))
  IN IF date + 1 > last THEN next ELSE push_days(next, date + 1, last)

\* Preparer::print_date: the path and the page built
date_path(date) == journal_path(path_name(Date_name(date)))

date_page(date) ==
  LET p1 == push_metadata(Content_default,
              Filters(<<IsoWeek_name(iso_week(date)), Month_name(Month_from(date))>>))
      p2 == push_metadata(p1, to_metadata(<<Weekday_name(weekday(date))>>, <<"day">>))
  IN push_metadata(p2, to_metadata(to_link(IsoWeek_name(iso_week(date))), <<"week">>))

\* Preparer::print_week
week_path(week) == page_path(path_name(IsoWeek_name(week)))

\* Mutation of week_page: the month is taken from the last day of the week.
week_page_month_of_last(week) ==
  LET first == IsoWeek_first(week)
      last == IsoWeek_last(week)
      p1 == push_metadata(Content_default, Filters(<< <<"week">>, <<"month">> >>))
      p2 == push_metadata(p1, to_metadata(to_link(Month_name(Month_from(last))), <<"month">>))
      p3 == push_metadata(p2, to_metadata(to_link(IsoWeek_name(IsoWeek_next(week))), <<"next">>))
      p4 == push_metadata(p3, to_metadata(to_link(IsoWeek_name(IsoWeek_prev(week))), <<"prev">>))
  IN push_days(p4, first, last)

week_page(week) ==
  LET first == IsoWeek_first(week)
      last == IsoWeek_last(week)
      p1 == push_metadata(Content_default, Filters(<< <<"week">>, <<"month">> >>))
      p2 == push_metadata(p1, to_metadata(to_link(Month_name(Month_from(first))), <<"month">>))
      p3 == push_metadata(p2, to_metadata(to_link(IsoWeek_name(IsoWeek_next(week))), <<"next">>))
      p4 == push_metadata(p3, to_metadata(to_link(IsoWeek_name(IsoWeek_prev(week))), <<"prev">>))
  IN push_days(p4, first, last)

\* Preparer::print_month
month_path(month) == page_path(path_name(Month_name(month)))

month_page(month) ==
  LET first == Month_first(month)
      last == Month_last(month)
      p1 == push_metadata(Content_default, Filters(<< <<"month">> >>))
      p2 == push_metadata(p1, to_metadata(to_link(Month_name(Month_next(month))), <<"next">>))
      p3 == push_metadata(p2, to_metadata(to_link(Month_name(Month_prev(month))), <<"prev">>))
  IN push_days(p3, first, last)

(***************************************************************************)
(* SpecGen: the page of one unit is generated, MaxRuns times at most, over *)
(* a path that holds no file or a file of the user.                        *)
(***************************************************************************)
GenDates == {from_ymd(2024, 12, 31), from_ymd(2024, 2, 5)}

GenUnits ==
  {[kind |-> "day", date |-> d] : d \in GenDates}
  \cup {[kind |-> "week", week |-> iso_week(d)] : d \in GenDates}
  \cup {[kind |-> "month", month |-> Month_from(d)] : d \in GenDates}

unit_path(u) ==
  IF u.kind = "day" THEN date_path(u.date)
  ELSE IF u.kind = "week" THEN week_path(u.week)
  ELSE month_path(u.month)

\* What the file may hold before the first run: nothing, a line that is no
\* metadata, notes of the user, a bare placeholder.
UserFiles ==
  {<<>>,
   <<" ", "c", "\n">>,
   <<"k", ":", ":", " ", "a", "\n", "\n", "-", "\n", "-", " ", "a", "\n", " ", "c", "\n">>,
   <<"-", "\n">>}

InitGen ==
  /\ \E u \in GenUnits :
       /\ hist = [op |-> "init", unit |-> u, path |-> unit_path(u), res |-> "ok",
                  runs |-> 0, pre |-> NoFs, preout |-> <<>>]
       /\ fs \in {NoFs} \cup {Put(NoFs, unit_path(u), t) : t \in UserFiles}
  /\ page = Content_default
  /\ rhs = Content_default
  /\ string = <<>>
  /\ out = <<>>

\* One generation step: the page is built, merged with the file and written;
\* the path is printed when all of it went well.
print_page(kind, built) ==
  /\ hist.unit.kind = kind
  /\ hist.runs < MaxRuns
  /\ \E o \in save(fs, hist.path, built) :
       /\ fs' = o.fs
       /\ out' = IF o.res = "ok" THEN Append(out, hist.path) ELSE out
       /\ hist' = [hist EXCEPT !.op = "print", !.res = o.res, !.runs = @ + 1,
                               !.pre = fs, !.preout = out]
  /\ rhs' = built
  /\ UNCHANGED <<page, string>>

PrintDate == print_page("day", date_page(hist.unit.date))

PrintWeek == print_page("week", week_page(hist.unit.week))

PrintMonth == print_page("month", month_page(hist.unit.month))

NextGen == PrintDate \/ PrintWeek \/ PrintMonth

SpecGen == InitGen /\ [][NextGen]_vars

Printed == hist.op = "print"

\* C1: when the file of the page exists and does not parse, the step ends in
\* an error and the file (and all of the disk) is as before: nothing was
\* written to the path, and the path is not reported.
C1_ParseErrorKeepsFile ==
  (Printed /\ exists(hist.pre, hist.path) /\ ~from_str(hist.pre[hist.path]).ok) =>
    /\ hist.res \in {"read_err", "parse_err"}
    /\ fs = hist.pre
    /\ out = hist.preout

C1_Witness ==
  /\ Printed
  /\ hist.res = "parse_err"
  /\ exists(fs, hist.path)
  /\ fs[hist.path] = <<" ", "c", "\n">>

\* C6: a first run over a path without a file writes the built page; a run
\* over the file a first run wrote leaves it byte for byte as it was.
C6_SecondRunSameFile ==
  (Printed /\ hist.res = "ok") =>
    /\ ~exists(hist.pre, hist.path) => fs[hist.path] = fmt(rhs)
    /\ (exists(hist.pre, hist.path) /\ hist.pre[hist.path] = fmt(rhs)) => fs = hist.pre

C6_Witness ==
  /\ Printed
  /\ hist.res = "ok"
  /\ hist.runs = 2
  /\ hist.unit.kind = "week"
  /\ exists(hist.pre, hist.path)
  /\ hist.pre[hist.path] = fmt(rhs)
  /\ Len(rhs.content) = 7
  /\ fs = hist.pre

(***************************************************************************)
(* SpecCal: the calendar units of a day drawn from a range of years, the   *)
(* navigation between them and the pages built for them.                   *)
(***************************************************************************)
CalDates == from_ymd(FirstYear, 1, 1)..from_ymd(FirstYear + MaxYears - 1, 12, 31)

InitCal ==
  /\ \E d \in CalDates :
       hist = [op |-> "init", week |-> iso_week(d), month |-> Month_from(d),
               from_week |-> iso_week(d), from_month |-> Month_from(d), n |-> 0]
  /\ page = Content_default
  /\ rhs = Content_default
  /\ string = <<>>
  /\ fs = NoFs
  /\ out = <<>>

\* week.next()
WeekNext ==
  /\ hist.n < MaxNav
  /\ hist' = [hist EXCEPT !.op = "week_next", !.from_week = hist.week,
                          !.week = IsoWeek_next(hist.week), !.n = @ + 1]
  /\ UNCHANGED <<page, rhs, string, fs, out>>

\* week.prev()
WeekPrev ==
  /\ hist.n < MaxNav
  /\ hist' = [hist EXCEPT !.op = "week_prev", !.from_week = hist.week,
                          !.week = IsoWeek_prev(hist.week), !.n = @ + 1]
  /\ UNCHANGED <<page, rhs, string, fs, out>>

\* month.next()
MonthNext ==
  /\ hist.n < MaxNav
  /\ hist' = [hist EXCEPT !.op = "month_next", !.from_month = hist.month,
                          !.month = Month_next(hist.month), !.n = @ + 1]
  /\ UNCHANGED <<page, rhs, string, fs, out>>

\* month.prev()
MonthPrev ==
  /\ hist.n < MaxNav
  /\ hist' = [hist EXCEPT !.op = "month_prev", !.from_month = hist.month,
                          !.month = Month_prev(hist.month), !.n = @ + 1]
  /\ UNCHANGED <<page, rhs, string, fs, out>>

\* print_week, up to the page built for the week
WeekPage ==
  /\ hist.op = "init"
  /\ rhs' = week_page(hist.week)
  /\ hist' = [hist EXCEPT !.op = "week_page"]
  /\ UNCHANGED <<page, string, fs, out>>

\* print_month, up to the page built for the month
MonthPage ==
  /\ hist.op = "init"
  /\ rhs' = month_page(hist.month)
  /\ hist' = [hist EXCEPT !.op = "month_page"]
  /\ UNCHANGED <<page, string, fs, out>>

NextCal == WeekNext \/ WeekPrev \/ MonthNext \/ MonthPrev \/ WeekPage \/ MonthPage

SpecCal == InitCal /\ [][NextCal]_vars

\* The week after w and the week before w, by the ISO numbering alone.
WeekAfter(w) ==
  IF w.week = weeks_in_year(w.year) THEN [year |-> w.year + 1, week |-> 1]
  ELSE [year |-> w.year, week |-> w.week + 1]

WeekBefore(w) ==
  IF w.week = 1 THEN [year |-> w.year - 1, week |-> weeks_in_year(w.year - 1)]
  ELSE [year |-> w.year, week |-> w.week - 1]

\* C15: next(w) is the week of the day after w's Sunday and prev(w) the week
\* of the day before w's Monday: the following and the preceding week of the
\* ISO numbering, each the inverse of the other; the week-year changes exactly
\* where the number resets, week 52 or 53 of Y being followed by week 1 of
\* Y + 1. The week of 2024-12-31 is (2025, 1), between (2024, 52) and (2025, 2).
C15_WeekNavigation ==
  LET w == hist.from_week
      r == hist.week
      eve == iso_week(from_ymd(2024, 12, 31))
  IN /\ hist.op = "week_next" =>
          /\ r = WeekAfter(w)
          /\ IsoWeek_first(r) = IsoWeek_last(w) + 1
          /\ IsoWeek_prev(r) = w
          /\ (r.year # w.year) <=> (r.week = 1)
          /\ r.week = 1 => (w.week \in {52, 53} /\ r.year = w.year + 1)
          /\ w = eve => (w = [year |-> 2025, week |-> 1] /\ r = [year |-> 2025, week |-> 2])
     /\ hist.op = "week_prev" =>
          /\ r = WeekBefore(w)
          /\ IsoWeek_last(r) = IsoWeek_first(w) - 1
          /\ IsoWeek_next(r) = w
          /\ (r.year # w.year) <=> (w.week = 1)
          /\ w = eve => r = [year |-> 2024, week |-> 52]

C15_Witness ==
  /\ hist.op = "week_prev"
  /\ hist.from_week = [year |-> 2025, week |-> 1]
  /\ hist.week = [year |-> 2024, week |-> 52]
  /\ hist.from_week = iso_week(from_ymd(2024, 12, 31))

\* C16: next of (y, m) is (y, m + 1), or (y + 1, 1) after December; prev is
\* (y, m - 1), or (y - 1, 12) before January; first is day 1 of the month and
\* last is its final day: the day before the first of the next month, still in
\* the month. February 2024 ends on the 29th, between January and March 2024.
C16_MonthNavigation ==
  LET m == hist.from_month
      r == hist.month
      feb == [year |-> 2024, month |-> 2]
  IN /\ m.month \in 1..12 /\ r.month \in 1..12
     /\ civil(Month_first(r)) = [year |-> r.year, month |-> r.month, day |-> 1]
     /\ Month_from(Month_last(r)) = r
     /\ Month_last(r) + 1 = Month_first(Month_next(r))
     /\ Month_last(r) - Month_first(r) + 1 \in 28..31
     /\ hist.op = "month_next" =>
          /\ r = IF m.month = 12 THEN [year |-> m.year + 1, month |-> 1]
                 ELSE [year |-> m.year, month |-> m.month + 1]
          /\ m = feb => r = [year |-> 2024, month |-> 3]
     /\ hist.op = "month_prev" =>
          /\ r = IF m.month = 1 THEN [year |-> m.year - 1, month |-> 12]
                 ELSE [year |-> m.year, month |-> m.month - 1]
          /\ m = feb => r = [year |-> 2024, month |-> 1]
     /\ r = feb => Month_last(r) = from_ymd(2024, 2, 29)

C16_Witness ==
  /\ hist.op = "month_next"
  /\ hist.from_month = [year |-> 2024, month |-> 1]
  /\ hist.month = [year |-> 2024, month |-> 2]
  /\ civil(Month_last(hist.month)) = [year |-> 2024, month |-> 2, day |-> 29]

\* The outline entry that embeds a day.
DayEntry(date) == <<"-", " ">> \o into_embedded(to_link(Date_name(date)))

\* C17: the outline built for a week page is its seven days, Monday to
\* Sunday, and the outline built for a month page is the days from the 1st to
\* the last of the month: each day once, in ascending order, none outside.
C17_PeriodOutline ==
  /\ hist.op = "week_page" =>
       LET mon == CHOOSE d \in (IsoWeek_first(hist.week) - 7)..(IsoWeek_first(hist.week) + 7) :
                    weekday(d) = 0 /\ iso_week(d) = hist.week
       IN /\ Len(rhs.content) = 7
          /\ \A i \in 1..7 :
               /\ rhs.content[i] = DayEntry(mon + i - 1)
               /\ weekday(mon + i - 1) = i - 1
               /\ iso_week(mon + i - 1) = hist.week
          /\ \A i, j \in 1..7 : rhs.content[i] = rhs.content[j] => i = j
  /\ hist.op = "month_page" =>
       LET m == hist.month
           n == Len(rhs.content)
       IN /\ n \in 28..31
          /\ \A i \in 1..n :
               rhs.content[i] = DayEntry(from_ymd(m.year, m.month, i))
          /\ Month_from(from_ymd(m.year, m.month, 1) + n - 1) = m
          /\ Month_from(from_ymd(m.year, m.month, 1) + n) # m
          /\ \A i, j \in 1..n : rhs.content[i] = rhs.content[j] => i = j

C17_Witness ==
  /\ hist.op = "week_page"
  /\ hist.week = [year |-> 2025, week |-> 1]
  /\ rhs.content[1] = DayEntry(from_ymd(2024, 12, 30))
  /\ rhs.content[7] = DayEntry(from_ymd(2025, 1, 5))

\* The month metadata of the page built for a week.
MonthLinks == {i \in 1..Len(rhs.metadata) : rhs.metadata[i].key = <<"month">>}

WeekDays(week) == IsoWeek_first(week)..IsoWeek_last(week)

\* C19 as claimed: the month link of a week page names the month that
\* contains the days of the week.
C19_MonthContainsWeek ==
  hist.op = "week_page" =>
    /\ Cardinality(MonthLinks) = 1
    /\ \A i \in MonthLinks : \A d \in WeekDays(hist.week) :
         rhs.metadata[i].value = to_link(Month_name(Month_from(d)))

\* C19: the month link of a week page names the month of the week's Monday:
\* the month of all its days when the week lies in one month, and otherwise
\* the earlier of its two months (of the earlier year, across a new year).
C19_MonthOfMonday ==
  hist.op = "week_page" =>
    /\ Cardinality(MonthLinks) = 1
    /\ \A i \in MonthLinks :
         LET mon == IsoWeek_first(hist.week)
             linked == Month_from(mon)
         IN /\ rhs.metadata[i].value = to_link(Month_name(linked))
            /\ weekday(mon) = 0
            /\ iso_week(mon) = hist.week
            /\ \A d \in WeekDays(hist.week) :
                 \/ Month_from(d) = linked
                 \/ Month_from(d) = Month_next(linked) /\ d > Month_last(linked)

C19_Witness ==
  /\ hist.op = "week_page"
  /\ hist.week = [year |-> 2025, week |-> 1]
  /\ \E i \in MonthLinks :
       rhs.metadata[i].value = to_link(Month_name([year |-> 2024, month |-> 12]))
  /\ Month_from(IsoWeek_last(hist.week)) = [year |-> 2025, month |-> 1]

(***************************************************************************)
(* The parse as a scan of the lines (SpecText).                            *)
(***************************************************************************)
\* The lines, or the entries, joined by newlines.
RECURSIVE JoinNL(_)
JoinNL(ss) ==
  IF ss = <<>> THEN <<>>
  ELSE IF Len(ss) = 1 THEN ss[1]
  ELSE ss[1] \o <<NL>> \o JoinNL(Tail(ss))

\* The index of the first line that begins with the bullet marker, 0 if none.
FirstBullet(ls) ==
  IF \E i \in 1..Len(ls) : starts_with(ls[i], <<"-">>)
  THEN CHOOSE i \in 1..Len(ls) :
         /\ starts_with(ls[i], <<"-">>)
         /\ \A j \in 1..(i - 1) : ~starts_with(ls[j], <<"-">>)
  ELSE 0

\* The lines before the outline: all of them when there is no bullet line.
Before(ls) == IF FirstBullet(ls) = 0 THEN 1..Len(ls) ELSE 1..(FirstBullet(ls) - 1)

\* C18: the parse switches to the outline at the first line that begins with
\* the bullet marker and never back: only non-empty lines before it are parsed
\* as metadata and only they can fail; the outline has no entry when there is
\* no such line, and otherwise one entry plus one for every later line that
\* begins with bullet marker and space; the entries joined by newlines are the
\* lines from the first bullet line to the last.
C18_ParseScan ==
  LET ls == lines(string)
      fb == FirstBullet(ls)
      meta == {i \in Before(ls) : ls[i] # <<>>}
  IN /\ hist.op = "err" => \E i \in meta : ~Metadata_parses(ls[i])
     /\ hist.op = "from_str" =>
          /\ \A i \in meta : Metadata_parses(ls[i])
          /\ Len(page.metadata) = Cardinality(meta)
          /\ \A k \in 1..Len(page.metadata) :
               \E i \in meta : /\ page.metadata[k] = Metadata_from_str(ls[i])
                               /\ Cardinality({j \in meta : j <= i}) = k
          /\ Len(page.content) =
               IF fb = 0 THEN 0
               ELSE 1 + Cardinality({i \in (fb + 1)..Len(ls) : starts_with(ls[i], <<"-", " ">>)})
          /\ fb # 0 => JoinNL(page.content) = JoinNL(SubSeq(ls, fb, Len(ls)))
          /\ \A k \in 2..Len(page.content) : starts_with(page.content[k], <<"-", " ">>)

\* A text of a bullet line, a line that is no bullet, a blank line and a
\* second bullet line: two entries, the first of three lines.
C18_Witness ==
  /\ hist.op = "from_str"
  /\ lines(string) = << <<"-", " ", "a">>, <<"-", "x">>, <<>>, <<"-", " ", "a">> >>
  /\ Len(page.content) = 2
  /\ page.content[1] = <<"-", " ", "a", "\n", "-", "x", "\n">>

(***************************************************************************)
(* The write of a page (SpecGen).                                          *)
(***************************************************************************)
\* The document a print step writes: the built page, merged into the file's
\* document when the file existed.
ToWrite ==
  IF exists(hist.pre, hist.path)
  THEN add(from_str(hist.pre[hist.path]).page, rhs)
  ELSE rhs

\* C14 as claimed: after a print step the file holds the complete text of
\* the page (the step went well) or the disk is as before (it failed): a
\* failed write leaves no truncated or partly written file.
C14_WriteAllOrNothing ==
  Printed =>
    \/ hist.res = "ok" /\ exists(fs, hist.path) /\ fs[hist.path] = fmt(ToWrite)
    \/ hist.res # "ok" /\ fs = hist.pre

(***************************************************************************)
(* SpecRun: Preparer::run over the days from `from` to `to`, one action    *)
(* per print_* call; the tests between two calls are part of the action    *)
(* that precedes them.                                                     *)
(***************************************************************************)
\* JournalName for Year (crate::journal_name, not part of the sources at hand)
Year_name(year) == <<ToString(year)>>

year_path(year) == page_path(path_name(Year_name(year)))

\* loop { date = date + Days::new(1); self.print_date(date)?; ...
loop_top(s) == [s EXCEPT !.pc = "date", !.date = @ + 1]

\* Mutation of check_to: the last day is left out.
check_to_exclusive(s, to) ==
  IF s.date + 1 >= to THEN [s EXCEPT !.pc = "done"] ELSE loop_top(s)

\* Mutation of check_to: the loop ends on the day `to` only.
check_to_equal(s, to) ==
  IF s.date = to THEN [s EXCEPT !.pc = "done"] ELSE loop_top(s)

\* if date >= self.to { break; }
check_to(s, to) ==
  IF s.date >= to THEN [s EXCEPT !.pc = "done"] ELSE loop_top(s)

\* if month != new_month { self.print_month(new_month)?; ...
check_month(s, to) ==
  IF s.month # Month_from(s.date) THEN [s EXCEPT !.pc = "month"] ELSE check_to(s, to)

\* if year != new_year { self.print_year(new_year)?; ...
check_year(s, to) ==
  IF s.year # civil(s.date).year THEN [s EXCEPT !.pc = "year"] ELSE check_month(s, to)

\* if week != new_week { self.print_week(new_week)?; ...
check_week(s, to) ==
  IF s.week # iso_week(s.date) THEN [s EXCEPT !.pc = "week"] ELSE check_year(s, to)

\* Mutation of set_week: the week printed is not kept.
set_week_forgotten(s, new_week) == s

\* week = new_week;
set_week(s, new_week) == [s EXCEPT !.week = new_week]

\* Mutation of run_after: the error of a print step is dropped.
run_after_ignored(cur, succ, res) == succ

\* The `?` after a print_* call: an error ends run.
run_after(cur, succ, res) == IF res = "ok" THEN succ ELSE [cur EXCEPT !.pc = "failed"]

RunFroms == {from_ymd(2023, 12, 30), from_ymd(2024, 9, 29)}

\* The runs: `to` from the day before `from` to MaxSpan days after it, and
\* the run from 2024-09-01 to 2024-10-01.
RunInputs ==
  {[from |-> f, to |-> f - 1 + k] : f \in RunFroms, k \in 0..(MaxSpan + 1)}
  \cup {[from |-> from_ymd(2024, 9, 1), to |-> from_ymd(2024, 10, 1)]}

\* The day after which no run of RunInputs goes on.
DateCap(r) == (IF r.to > r.from THEN r.to ELSE r.from) + 1

\* The graph before the run: empty, or the page of the second day holds
\* notes of the user, or a line that does not parse.
RunFiles(r) ==
  {NoFs} \cup {Put(NoFs, date_path(r.from + 1), t) :
                 t \in {<<" ", "c", "\n">>, <<"-", " ", "a", "\n">>}}

InitRun ==
  /\ \E r \in RunInputs :
       /\ hist = [pc |-> "date0", date |-> r.from, year |-> civil(r.from).year,
                  month |-> Month_from(r.from), week |-> iso_week(r.from),
                  from |-> r.from, to |-> r.to, cap |-> DateCap(r),
                  res |-> "ok", path |-> <<>>, pre |-> NoFs, preout |-> <<>>,
                  days |-> <<>>, weeks |-> <<>>, months |-> <<>>, years |-> <<>>]
       /\ fs \in RunFiles(r)
  /\ page = Content_default
  /\ rhs = Content_default
  /\ string = <<>>
  /\ out = <<>>

\* The page built for a unit, and the end of its print_* call.
unit_page(u) ==
  IF u.kind = "day" THEN date_page(u.date)
  ELSE IF u.kind = "week" THEN week_page(u.week)
  ELSE month_page(u.month)

save_unit(fsys, u) == save(fsys, unit_path(u), unit_page(u))

\* A print step ends well or with an error; what it reads and writes is left out.
any_result(fsys, u) == {[fs |-> fsys, res |-> "ok"], [fs |-> fsys, res |-> "err"]}

\* The results of the print_* call of a unit, with the files or without.
print_unit(files, fsys, u) == IF files THEN save_unit(fsys, u) ELSE any_result(fsys, u)

\* One print_* call of run: `logged` is the run with the unit noted as
\* started, `succ` the run after the call and the tests that follow it.
\* outcomes: the results the call can have.
run_step(path, outcomes, logged, succ) ==
  \E o \in outcomes :
    /\ fs' = o.fs
    /\ out' = IF o.res = "ok" THEN Append(out, path) ELSE out
    /\ hist' = [run_after(logged, succ, o.res) EXCEPT
                  !.res = o.res, !.path = path, !.pre = fs, !.preout = out]
    /\ UNCHANGED <<page, rhs, string>>

\* self.print_date(date)?
run_date(files) ==
  /\ hist.pc \in {"date0", "date"}
  /\ hist.res = "ok"
  /\ hist.date <= hist.cap
  /\ LET logged == [hist EXCEPT !.days = Append(@, hist.date)]
     IN run_step(date_path(hist.date), print_unit(files, fs, [kind |-> "day", date |-> hist.date]),
                 logged,
                 IF hist.pc = "date0" THEN [logged EXCEPT !.pc = "week0"]
                 ELSE check_week(logged, hist.to))

\* self.print_week(week)? and self.print_week(new_week)?; week = new_week;
run_week(files) ==
  /\ hist.pc \in {"week0", "week"}
  /\ hist.res = "ok"
  /\ LET new_week == iso_week(hist.date)
         logged == [hist EXCEPT !.weeks = Append(@, new_week)]
     IN run_step(week_path(new_week), print_unit(files, fs, [kind |-> "week", week |-> new_week]),
                 logged,
                 IF hist.pc = "week0" THEN [logged EXCEPT !.pc = "month0"]
                 ELSE check_year(set_week(logged, new_week), hist.to))

\* self.print_month(month)? and self.print_month(new_month)?; month = new_month;
run_month(files) ==
  /\ hist.pc \in {"month0", "month"}
  /\ hist.res = "ok"
  /\ LET new_month == Month_from(hist.date)
         logged == [hist EXCEPT !.months = Append(@, new_month)]
     IN run_step(month_path(new_month), print_unit(files, fs, [kind |-> "month", month |-> new_month]),
                 logged,
                 IF hist.pc = "month0" THEN [logged EXCEPT !.pc = "year0"]
                 ELSE check_to([logged EXCEPT !.month = new_month], hist.to))

\* self.print_year(year)? and self.print_year(new_year)?; year = new_year;
\* print_year prints the path and touches no file.
RunYear ==
  /\ hist.pc \in {"year0", "year"}
  /\ hist.res = "ok"
  /\ LET new_year == civil(hist.date).year
         logged == [hist EXCEPT !.years = Append(@, new_year)]
     IN run_step(year_path(new_year), {[fs |-> fs, res |-> "ok"]},
                 logged,
                 IF hist.pc = "year0" THEN loop_top(logged)
                 ELSE check_month([logged EXCEPT !.year = new_year], hist.to))

RunDate == run_date(TRUE)

RunWeek == run_week(TRUE)

RunMonth == run_month(TRUE)

NextRun == RunDate \/ RunWeek \/ RunMonth \/ RunYear

SpecRun == InitRun /\ [][NextRun]_vars

(***************************************************************************)
(* SpecLoop: the loop of Preparer::run alone. A print step ends well or    *)
(* with an error; what it reads and writes is left out.                    *)
(***************************************************************************)
InitLoop == InitRun /\ fs = NoFs

LoopDate == run_date(FALSE)

LoopWeek == run_week(FALSE)

LoopMonth == run_month(FALSE)

NextLoop == LoopDate \/ LoopWeek \/ LoopMonth \/ RunYear

\* The scheduling is that of one thread: the call that is next is made.
SpecLoop == InitLoop /\ [][NextLoop]_vars /\ WF_vars(NextLoop)

\* The paths of the day pages among the paths printed.
JournalOut == SelectSeq(out, LAMBDA p : p[1] = "journals")

Finished == hist.pc = "done"

\* C11: for from < to, the day pages are those of the days from `from` to
\* `to`, each once, in ascending order, `to` the last: at every moment the
\* days begun are the first days of the range, and a run that ends well has
\* begun and printed them all (31 for 2024-09-01 to 2024-10-01).
C11_DaysOfRange ==
  hist.from < hist.to =>
    /\ \A i \in 1..Len(hist.days) :
         hist.days[i] = hist.from + i - 1 /\ hist.days[i] <= hist.to
    /\ Finished =>
         /\ Len(hist.days) = hist.to - hist.from + 1
         /\ hist.days[Len(hist.days)] = hist.to
         /\ JournalOut = [i \in 1..Len(hist.days) |-> date_path(hist.days[i])]
         /\ (hist.from = from_ymd(2024, 9, 1) /\ hist.to = from_ymd(2024, 10, 1)) =>
              /\ Len(hist.days) = 31
              /\ civil(hist.days[31]) = [year |-> 2024, month |-> 10, day |-> 1]

C11_Witness ==
  /\ Finished
  /\ hist.from = from_ymd(2024, 9, 1)
  /\ hist.to = from_ymd(2024, 10, 1)
  /\ Len(JournalOut) = 31
  /\ JournalOut[31] = date_path(from_ymd(2024, 10, 1))

NoRepeat(s) == \A i, j \in 1..Len(s) : s[i] = s[j] => i = j

RangeDays == hist.from..hist.to

\* How often a path was printed.
Printings(path) == Cardinality({i \in 1..Len(out) : out[i] = path})

\* C12: for from < to, a run that ends well has begun and printed the page of
\* every week, month and year with a day in the range, once each, and of no
\* other; no unit is begun twice at any moment. From 2024-09-01 to 2024-10-01:
\* September, October and the six weeks 35 to 40; from 2023-12-31 to Monday
\* 2024-01-01 the week, the month and the year are all new.
C12_PeriodsOnce ==
  /\ NoRepeat(hist.weeks) /\ NoRepeat(hist.months) /\ NoRepeat(hist.years)
  /\ (hist.from < hist.to /\ Finished) =>
       /\ Range(hist.weeks) = {iso_week(d) : d \in RangeDays}
       /\ Range(hist.months) = {Month_from(d) : d \in RangeDays}
       /\ Range(hist.years) = {civil(d).year : d \in RangeDays}
       /\ \A w \in Range(hist.weeks) : Printings(week_path(w)) = 1
       /\ \A m \in Range(hist.months) : Printings(month_path(m)) = 1
       /\ \A y \in Range(hist.years) : Printings(year_path(y)) = 1
       /\ Len(out) = Len(hist.days) + Len(hist.weeks) + Len(hist.months) + Len(hist.years)
       /\ (hist.from = from_ymd(2024, 9, 1) /\ hist.to = from_ymd(2024, 10, 1)) =>
            /\ hist.months = <<[year |-> 2024, month |-> 9], [year |-> 2024, month |-> 10]>>
            /\ hist.weeks = [i \in 1..6 |-> [year |-> 2024, week |-> 34 + i]]
            /\ hist.years = <<2024>>

C12_Witness ==
  /\ Finished
  /\ hist.from = from_ymd(2023, 12, 30)
  /\ hist.to = from_ymd(2024, 1, 2)
  /\ hist.weeks = <<[year |-> 2023, week |-> 52], [year |-> 2024, week |-> 1]>>
  /\ hist.months = <<[year |-> 2023, month |-> 12], [year |-> 2024, month |-> 1]>>
  /\ hist.years = <<2023, 2024>>
  /\ Len(out) = 10

\* C13: an error ends the run: every print step starts from a run without an
\* error; the step that fails leaves the run failed, prints no path and
\* leaves every file but its own as it was.
C13_ErrorStops ==
  [][/\ hist.res = "ok"
     /\ hist'.res # "ok" =>
          /\ hist'.pc = "failed"
          /\ out' = out
          /\ DOMAIN fs' \subseteq DOMAIN fs \cup {hist'.path}
          /\ \A p \in DOMAIN fs : p # hist'.path => (p \in DOMAIN fs' /\ fs'[p] = fs[p])]_vars

C13_Witness ==
  /\ hist.pc = "failed"
  /\ hist.res = "parse_err"
  /\ hist.from = from_ymd(2023, 12, 30)
  /\ hist.days = <<hist.from, hist.from + 1>>
  /\ Len(out) = 4
  /\ DOMAIN fs = {out[i] : i \in 1..3} \cup {hist.path}
  /\ fs[hist.path] = <<" ", "c", "\n">>

\* C20: the run ends, whatever from and to: the day grows by one each turn
\* and the loop is left on the first day that is not before `to`; as the test
\* comes after the body, a run that ends well has done `from` and the day
\* after it, also when `to` is not after `from`.
C20_Terminates ==
  /\ <>(hist.pc \in {"done", "failed"})
  /\ [](\A i \in 1..Len(hist.days) :
          /\ hist.days[i] = hist.from + i - 1
          /\ i > 2 => hist.days[i] <= hist.to)
  /\ [](Finished => /\ Len(hist.days) >= 2
                    /\ hist.days[Len(hist.days)] >= hist.to
                    /\ hist.to <= hist.from => hist.days = <<hist.from, hist.from + 1>>)

C20_Witness ==
  /\ Finished
  /\ hist.to < hist.from
  /\ hist.days = <<hist.from, hist.from + 1>>

====
